---- MODULE Spec2Model ----
(***************************************************************************)
(* imgsieve: find duplicate images by fingerprint, keep one image of each  *)
(* duplicate group and, after confirmation, delete the others.            *)
(*                                                                         *)
(* The model follows src/imgsieve.py: main() calls find_images, then       *)
(* hash_images, then filter_duplicates once per duplicate group, then the  *)
(* confirm-then-delete step.  Python lists are objects with identity, so   *)
(* they live in a heap (a sequence of lists addressed by index) and the    *)
(* dictionaries map keys to heap addresses.                                *)
(***************************************************************************)
EXTENDS Integers, Sequences, FiniteSets, TLC

(* ------------------------------ bounds -------------------------------- *)

\* number of files in the directory tree that is searched
MaxFiles == 5

\* fingerprints are the integers 0..MaxHash
MaxHash == 1

(* --------------------------- the environment -------------------------- *)

Files == 1..MaxFiles

\* The extension of file f of the tree (a fixed population of the tree).
FileExtensions == <<"jpg", "png", "txt", "gif", "bmp", "jpeg">>

ExtOf(f) == FileExtensions[((f - 1) % Len(FileExtensions)) + 1]

Hashes == 0..MaxHash

\* the (width, height) an image file can have
ImageSizes == { <<1, 1>>, <<2, 1>>, <<1, 2>> }

\* the command lines: the default method and filter, and an unknown name of each
MethodInputs == {"phash", "md5"}

FilterInputs == {"resolution", "size"}

\* all lists of distinct elements of S
DistinctSeqs(S) ==
  UNION { { s \in [1..n -> S] : \A a, b \in 1..n : a # b => s[a] # s[b] }
          : n \in 0..Cardinality(S) }

(* ------------------------------ find_images --------------------------- *)

\* file.endswith('.jpg') or ... '.jpeg', '.png', '.bmp', '.gif'
IsImageFile(f) == ExtOf(f) \in {"jpg", "jpeg", "png", "bmp", "gif"}

\* The image files of one directory of the walk, in listing order.
ImagesOf(files) == SelectSeq(files, IsImageFile)

\* find_images over the directories os.walk yields (walk[1] is the top
\* directory): without the recursive flag the loop breaks after the first.
RECURSIVE find_images(_, _)
find_images(walk, recursive) ==
  IF walk = <<>> THEN <<>>
  ELSE ImagesOf(Head(walk)) \o
       (IF recursive THEN find_images(Tail(walk), recursive) ELSE <<>>)

(* ------------------------------ hash_images --------------------------- *)

\* the if/elif chain that picks the hash function; "raise" is the else branch
HashFunctionOf(method) ==
  IF method = "ahash" THEN "average_hash"
  ELSE IF method = "phash" THEN "phash"
  ELSE IF method = "phash_simple" THEN "phash_simple"
  ELSE IF method = "dhash" \/ method = "dhash_horizontal" THEN "dhash"
  ELSE IF method = "dhash_vertical" THEN "dhash_vertical"
  ELSE IF method = "whash" \/ method = "whash-haar" THEN "whash"
  ELSE IF method = "whash-db4" THEN "whash_db4"
  ELSE "raise"

HexDigits == <<"0", "1", "2", "3", "4", "5", "6", "7",
               "8", "9", "a", "b", "c", "d", "e", "f">>

\* str(image_hash): imagehash writes the fingerprint's bits in hexadecimal
\* (two digits here); distinct fingerprints of one size give distinct strings
StrOf(h) == << HexDigits[((h \div 16) % 16) + 1], HexDigits[(h % 16) + 1] >>

\* a faulty truth test: every list counts as true
TruthyAlways(lst) == TRUE

\* truth value of a list: it is not empty
Truthy(lst) == Len(lst) > 0

\* a faulty append: lst.insert(0, x)
ListPrepend(lst, x) == <<x>> \o lst

\* lst.append(x)
ListAppend(lst, x) == Append(lst, x)

\* a faulty copy: the list object itself, without [:]
SliceAlias(hp, a) == [heap |-> hp, ref |-> a]

\* lst[:] : a new list object with the same elements
SliceCopy(hp, a) == [heap |-> Append(hp, hp[a]), ref |-> Len(hp) + 1]

\* a new empty list object
NewList(hp) == [heap |-> Append(hp, <<>>), ref |-> Len(hp) + 1]

\* One iteration of the hashing loop after the fingerprint h of path p is
\* known (lines 79-83).  st holds the two dictionaries and the heap.
HashStep(st, p, h) ==
  LET \* image_hashes.setdefault(image_hash, [])
      present == h \in DOMAIN st.image_hashes
      n1  == IF present THEN [heap |-> st.heap, ref |-> st.image_hashes[h]]
             ELSE NewList(st.heap)
      ih1 == IF present THEN st.image_hashes
             ELSE st.image_hashes @@ (h :> n1.ref)
      a   == n1.ref
      isdup == Truthy(n1.heap[a])
      \* duplicates.setdefault(str(image_hash), image_hashes[image_hash][:])
      k   == StrOf(h)
      dpresent == k \in DOMAIN st.duplicates
      n2  == IF ~isdup THEN n1
             ELSE IF dpresent THEN [heap |-> n1.heap, ref |-> st.duplicates[k]]
             ELSE SliceCopy(n1.heap, a)
      dup1 == IF isdup /\ ~dpresent THEN st.duplicates @@ (k :> n2.ref)
              ELSE st.duplicates
      \* duplicate.append(image_path)
      hp3 == IF isdup THEN [n2.heap EXCEPT ![n2.ref] = ListAppend(@, p)]
             ELSE n2.heap
      \* image_hashes[image_hash].append(image_path)
      hp4 == [hp3 EXCEPT ![a] = ListAppend(@, p)]
  IN [image_hashes |-> ih1, duplicates |-> dup1, heap |-> hp4]

(* ---------------------------- filter_duplicates ----------------------- *)

\* img.size[0] * img.size[1]
resolution(size) == size[1] * size[2]

\* a faulty comparison: a later item of equal key replaces the maximum
KeyGreaterOrEqual(new, best) == new >= best

\* the comparison max() uses to replace its running maximum
KeyGreater(new, best) == new > best

\* max(duplicates, key=resolution): the index of the item max() returns
\* among the first n items, keys[j] being the key of item j
RECURSIVE MaxIndex(_, _)
MaxIndex(keys, n) ==
  IF n = 1 THEN 1
  ELSE LET b == MaxIndex(keys, n - 1)
       IN IF KeyGreater(keys[n], keys[b]) THEN n ELSE b

\* a faulty remove: the list is left as it is
ListRemoveNothing(lst, x) == lst

\* lst.remove(x): the list without the first item equal to x
ListRemove(lst, x) ==
  LET k == CHOOSE j \in 1..Len(lst) :
             lst[j] = x /\ \A m \in 1..(j - 1) : lst[m] # x
  IN SubSeq(lst, 1, k - 1) \o SubSeq(lst, k + 1, Len(lst))

(* ------------------------------ confirmation -------------------------- *)

\* what the user may type at the prompt, as lists of characters
Replies == { <<>>, <<" ", "Y">>, <<"n", "y">> }

Whitespace == {" ", "\t", "\n", "\r"}

\* str.lstrip()
RECURSIVE LStrip(_)
LStrip(s) ==
  IF s # <<>> /\ Head(s) \in Whitespace THEN LStrip(Tail(s)) ELSE s

LowerChar(c) == IF c = "Y" THEN "y" ELSE IF c = "N" THEN "n" ELSE c

\* str.lower()
Lower(s) == [j \in 1..Len(s) |-> LowerChar(s[j])]

\* str.startswith(c) for a one-character prefix
StartsWith(s, c) == s # <<>> /\ s[1] = c

\* a faulty test: 'y' in confirm_delete.lower()
ConfirmedAnywhere(reply) == \E j \in 1..Len(reply) : LowerChar(reply[j]) = "y"

\* confirm_delete.lstrip().lower().startswith('y')
Confirmed(reply) == StartsWith(Lower(LStrip(reply)), "y")

(* ------------------------------ the run ------------------------------- *)

\* a faulty block exit: the image stays open
WithExitLeak(opened, p) == opened

\* leaving a "with Image.open(...) as img" block closes the image
WithExit(opened, p) == opened \ {p}

\* a faulty handling: the decode error is caught and the loop goes on
SkipAndContinue(resume) == resume

\* where control goes when a decode error is raised: nothing catches it, so
\* it leaves main; resume is the loop the statement was in
AfterRaise(resume) == "error"

NoError == [type |-> "none", msg |-> "", arg |-> ""]

EmptyDict == [x \in {} |-> 0]

VARIABLES
  pc,            \* position of the run in main
  args,          \* parsed command line: method, filter_mode, recursive
  image_paths,   \* main: the list find_images returned
  hash_function, \* hash_images: the function picked from the method name
  i,             \* hash_images: index of the path the loop is at
  fingerprints,  \* fingerprints[j] is what hash_function returned for path j
  image_hashes,  \* dict: fingerprint -> address of its list of paths
  duplicates,    \* dict: str(fingerprint) -> address of its list of paths
  heap,          \* the list objects, by address
  opened,        \* the images that are open now
  nopens,        \* number of calls of Image.open so far
  returned,      \* hash_images has returned its two dictionaries to main
  todo,          \* main: the keys of duplicates not yet iterated over
  paths_key,     \* main: the key of the group being filtered
  f_list,        \* filter_duplicates: address of its argument list
  f_j,           \* filter_duplicates: index of the item max() is at
  f_keys,        \* filter_duplicates: the keys resolution() has returned
  trash,         \* main: the lists filter_duplicates returned (addresses)
  printed,       \* the paths printed as marked for deletion
  prompted,      \* the confirmation prompt has been shown
  reply,         \* confirm_delete: what the user typed
  d,             \* index of the next path to remove
  removed,       \* the files os.remove has removed
  error          \* the exception that ended the run, if any

vars == << pc, args, image_paths, hash_function, i, fingerprints,
           image_hashes, duplicates, heap, opened, nopens, returned, todo,
           paths_key, f_list, f_j, f_keys, trash, printed,
           prompted, reply, d, removed, error >>

hashVars == << hash_function, i, fingerprints, image_hashes, duplicates,
               returned >>

filterVars == << todo, paths_key, f_list, f_j, f_keys, trash >>

deleteVars == << printed, prompted, reply, d, removed >>

\* the paths of the lists in trash, in order
RECURSIVE Flatten(_, _)
Flatten(hp, refs) ==
  IF refs = <<>> THEN <<>> ELSE hp[Head(refs)] \o Flatten(hp, Tail(refs))

Init ==
  /\ pc = "start"
  /\ args \in [method : MethodInputs, filter_mode : FilterInputs]
  /\ image_paths = <<>>
  /\ hash_function = "none"
  /\ i = 1
  /\ fingerprints = <<>>
  /\ image_hashes = EmptyDict
  /\ duplicates = EmptyDict
  /\ heap = <<>>
  /\ opened = {}
  /\ nopens = 0
  /\ returned = FALSE
  /\ todo = {}
  /\ paths_key = <<>>
  /\ f_list = 0
  /\ f_j = 1
  /\ f_keys = <<>>
  /\ trash = <<>>
  /\ printed = <<>>
  /\ prompted = FALSE
  /\ reply = <<>>
  /\ d = 1
  /\ removed = {}
  /\ error = NoError

\* main, lines 132-135: the tree holds any of the files, listed in any
\* order, in the top directory or in a subdirectory; the -r flag is read
\* here and nowhere else
FindImages ==
  /\ pc = "start"
  /\ \E all \in DistinctSeqs(Files) : \E k \in 0..Len(all) :
     \E recursive \in BOOLEAN :
       LET walk == << SubSeq(all, 1, k), SubSeq(all, k + 1, Len(all)) >>
       IN /\ image_paths' = find_images(walk, recursive)
          /\ pc' = IF image_paths' = <<>> THEN "done" ELSE "hash_entry"
  /\ UNCHANGED << args, heap, opened, nopens, error >>
  /\ UNCHANGED << hashVars, filterVars, deleteVars >>

\* hash_images, lines 56-74
HashEntry ==
  /\ pc = "hash_entry"
  /\ IF HashFunctionOf(args.method) = "raise"
       THEN /\ error' = [type |-> "ValueError",
                         msg |-> "Invalid hashing method: ",
                         arg |-> args.method]
            /\ pc' = "error"
            /\ UNCHANGED << hash_function, image_hashes, duplicates, i >>
       ELSE /\ hash_function' = HashFunctionOf(args.method)
            /\ image_hashes' = EmptyDict
            /\ duplicates' = EmptyDict
            /\ i' = 1
            /\ pc' = "hash_loop"
            /\ error' = error
  /\ UNCHANGED << args, image_paths, fingerprints, heap, opened, nopens,
                  returned >>
  /\ UNCHANGED << filterVars, deleteVars >>

\* hash_images, line 77: Image.open(image_path)
HashOpen ==
  /\ pc = "hash_loop"
  /\ i <= Len(image_paths)
  /\ nopens' = nopens + 1
  /\ \/ /\ opened' = opened \cup {image_paths[i]}
        /\ pc' = "hash_with"
        /\ error' = error
     \/ /\ error' = [type |-> "IOError", msg |-> "cannot identify image file",
                     arg |-> image_paths[i]]
        /\ pc' = AfterRaise("hash_loop")
        /\ opened' = opened
  /\ UNCHANGED << args, image_paths, heap >>
  /\ UNCHANGED << hashVars, filterVars, deleteVars >>

\* hash_images, lines 78-83: the fingerprint, the end of the with block and
\* the update of the two dictionaries
HashCompute ==
  /\ pc = "hash_with"
  /\ opened' = WithExit(opened, image_paths[i])
  /\ \/ \E h \in Hashes :
          LET st == HashStep([image_hashes |-> image_hashes,
                              duplicates |-> duplicates,
                              heap |-> heap], image_paths[i], h)
          IN /\ image_hashes' = st.image_hashes
             /\ duplicates' = st.duplicates
             /\ heap' = st.heap
             /\ fingerprints' = Append(fingerprints, h)
             /\ i' = i + 1
             /\ pc' = "hash_loop"
             /\ error' = error
     \/ /\ error' = [type |-> "IOError", msg |-> "image file is truncated",
                     arg |-> image_paths[i]]
        /\ pc' = AfterRaise("hash_loop")
        /\ UNCHANGED << image_hashes, duplicates, heap, fingerprints, i >>
  /\ UNCHANGED << args, image_paths, hash_function, nopens, returned >>
  /\ UNCHANGED << filterVars, deleteVars >>

\* hash_images, line 85, and main, lines 138-147
HashReturn ==
  /\ pc = "hash_loop"
  /\ i > Len(image_paths)
  /\ returned' = TRUE
  /\ hash_function' = "none"
  /\ todo' = DOMAIN duplicates
  /\ trash' = <<>>
  /\ pc' = IF DOMAIN duplicates = {} THEN "done" ELSE "filter_loop"
  /\ UNCHANGED << args, image_paths, i, fingerprints, image_hashes,
                  duplicates, heap, opened, nopens, error >>
  /\ UNCHANGED << paths_key, f_list, f_j, f_keys >>
  /\ UNCHANGED deleteVars

\* main, lines 148-149, and filter_duplicates, lines 103-107: the next group
\* of duplicates.items() is copied and passed to filter_duplicates
FilterEntry ==
  /\ pc = "filter_loop"
  /\ \E k \in todo :
       LET copy == SliceCopy(heap, duplicates[k])
       IN /\ paths_key' = k
          /\ heap' = copy.heap
          /\ f_list' = copy.ref
  /\ IF args.filter_mode = "resolution"
       THEN /\ f_j' = 1
            /\ f_keys' = <<>>
            /\ pc' = "max_loop"
            /\ error' = error
       ELSE /\ error' = [type |-> "ValueError",
                         msg |-> "Invalid filter mode: ",
                         arg |-> args.filter_mode]
            /\ pc' = "error"
            /\ UNCHANGED << f_j, f_keys >>
  /\ UNCHANGED << args, image_paths, opened, nopens, todo, trash >>
  /\ UNCHANGED << hashVars, deleteVars >>

\* filter_duplicates.resolution, line 100: Image.open(image_path)
ResOpen ==
  /\ pc = "max_loop"
  /\ f_j <= Len(heap[f_list])
  /\ nopens' = nopens + 1
  /\ \/ /\ opened' = opened \cup {heap[f_list][f_j]}
        /\ pc' = "res_with"
        /\ error' = error
     \/ /\ error' = [type |-> "IOError", msg |-> "cannot identify image file",
                     arg |-> heap[f_list][f_j]]
        /\ pc' = AfterRaise("max_loop")
        /\ opened' = opened
  /\ UNCHANGED << args, image_paths, heap >>
  /\ UNCHANGED << hashVars, filterVars, deleteVars >>

\* filter_duplicates.resolution, line 101, and the end of the with block
ResRead ==
  /\ pc = "res_with"
  /\ \E size \in ImageSizes : f_keys' = Append(f_keys, resolution(size))
  /\ opened' = WithExit(opened, heap[f_list][f_j])
  /\ f_j' = f_j + 1
  /\ pc' = "max_loop"
  /\ UNCHANGED << args, image_paths, heap, nopens, error >>
  /\ UNCHANGED << todo, paths_key, f_list, trash >>
  /\ UNCHANGED << hashVars, deleteVars >>

\* filter_duplicates, lines 104-109, and main, line 149: trash.append(...)
FilterReturn ==
  /\ pc = "max_loop"
  /\ f_j > Len(heap[f_list])
  /\ LET highest_res == heap[f_list][MaxIndex(f_keys, Len(f_keys))]
     IN heap' = [heap EXCEPT ![f_list] = ListRemove(@, highest_res)]
  /\ trash' = Append(trash, f_list)
  /\ todo' = todo \ {paths_key}
  /\ pc' = "filter_loop"
  /\ paths_key' = <<>>
  /\ f_list' = 0
  /\ f_j' = 1
  /\ f_keys' = <<>>
  /\ UNCHANGED << args, image_paths, opened, nopens, error >>
  /\ UNCHANGED << hashVars, deleteVars >>

\* main, lines 150-159: the paths marked for deletion are printed
FilterDone ==
  /\ pc = "filter_loop"
  /\ todo = {}
  /\ IF trash = <<>>
       THEN pc' = "done" /\ printed' = printed
       ELSE pc' = "confirm" /\ printed' = Flatten(heap, trash)
  /\ UNCHANGED << args, image_paths, heap, opened, nopens, error >>
  /\ UNCHANGED << prompted, reply, d, removed >>
  /\ UNCHANGED << hashVars, filterVars >>

\* main, lines 161-162: input('Delete images? (y/n): ')
Confirm ==
  /\ pc = "confirm"
  /\ prompted' = TRUE
  /\ \/ \E r \in Replies :
          /\ reply' = r
          /\ pc' = IF Confirmed(r) THEN "delete" ELSE "done"
          /\ error' = error
     \/ /\ error' = [type |-> "EOFError", msg |-> "EOF when reading a line",
                     arg |-> ""]
        /\ pc' = "error"
        /\ reply' = reply
  /\ d' = 1
  /\ UNCHANGED << args, image_paths, heap, opened, nopens, printed, removed >>
  /\ UNCHANGED << hashVars, filterVars >>

\* main, lines 163-165: os.remove(duplicate)
Remove ==
  /\ pc = "delete"
  /\ LET ds == Flatten(heap, trash)
     IN \/ /\ removed' = removed \cup {ds[d]}
           /\ d' = d + 1
           /\ pc' = IF d = Len(ds) THEN "done" ELSE "delete"
           /\ error' = error
        \/ /\ error' = [type |-> "OSError", msg |-> "cannot remove",
                        arg |-> ds[d]]
           /\ pc' = "error"
           /\ UNCHANGED << removed, d >>
  /\ UNCHANGED << args, image_paths, heap, opened, nopens, printed, prompted,
                  reply >>
  /\ UNCHANGED << hashVars, filterVars >>

Next ==
  \/ FindImages
  \/ HashEntry
  \/ HashOpen
  \/ HashCompute
  \/ HashReturn
  \/ FilterEntry
  \/ ResOpen
  \/ ResRead
  \/ FilterReturn
  \/ FilterDone
  \/ Confirm
  \/ Remove

Spec == Init /\ [][Next]_vars

(* --------------------------- vocabulary of the claims ----------------- *)

SetOf(lst) == { lst[j] : j \in 1..Len(lst) }

NoRepeats(lst) == \A a, b \in 1..Len(lst) : a # b => lst[a] # lst[b]

\* positions of image_paths whose fingerprint is h, among those hashed so far
PositionsOf(h) == { j \in 1..Len(fingerprints) : fingerprints[j] = h }

PathsOf(h) == { image_paths[j] : j \in PositionsOf(h) }

\* the fingerprints that at least two hashed paths share
SharedHashes == { h \in Hashes : Cardinality(PositionsOf(h)) >= 2 }

\* position of path p in image_paths (the paths of a run are distinct)
PositionOf(p) == CHOOSE j \in 1..Len(image_paths) : image_paths[j] = p

\* the list object a dictionary entry refers to
GroupOf(k) == heap[duplicates[k]]

IndexOf(h) == heap[image_hashes[h]]

\* lst is in the relative order of image_paths
InEncounterOrder(lst) ==
  \A a, b \in 1..Len(lst) : a < b => PositionOf(lst[a]) < PositionOf(lst[b])

\* the DeletionSet: every path filter_duplicates returned, in order
DeletionSet == Flatten(heap, trash)

\* every group has been filtered
FilteringComplete == returned /\ todo = {}

\* hash_images has just returned: no call of filter_duplicates was made yet
JustReturned == returned /\ trash = <<>> /\ f_list = 0

\* lst without its item at index r
Without(lst, r) == SubSeq(lst, 1, r - 1) \o SubSeq(lst, r + 1, Len(lst))

\* the reply starts with y or Y after any leading whitespace
SaysYes(r) ==
  \E n \in 0..Len(r) :
    /\ n < Len(r)
    /\ \A j \in 1..n : r[j] \in {" ", "\t", "\n", "\r"}
    /\ r[n + 1] \in {"y", "Y"}

(* -------------------------------- claims ------------------------------ *)

\* C1 - Grouper partition law: when hash_images has returned, duplicates has
\* exactly one group per fingerprint that at least two paths share, a group
\* holds exactly the paths of its fingerprint, the groups together hold
\* exactly the paths whose fingerprint occurs at least twice, every group
\* has at least 2 members, and no path is in two groups or twice in one.
C1_PartitionLaw ==
  JustReturned =>
    /\ Cardinality(DOMAIN duplicates) = Cardinality(SharedHashes)
    /\ \A h \in SharedHashes :
         Cardinality({ k \in DOMAIN duplicates : SetOf(GroupOf(k)) = PathsOf(h) }) = 1
    /\ UNION { SetOf(GroupOf(k)) : k \in DOMAIN duplicates }
         = UNION { PathsOf(h) : h \in SharedHashes }
    /\ \A k \in DOMAIN duplicates : Len(GroupOf(k)) >= 2 /\ NoRepeats(GroupOf(k))
    /\ \A k1, k2 \in DOMAIN duplicates :
         k1 # k2 => SetOf(GroupOf(k1)) \cap SetOf(GroupOf(k2)) = {}

\* two groups of two paths each
C1_Witness ==
  /\ JustReturned
  /\ Cardinality(DOMAIN duplicates) = 2
  /\ Len(image_paths) = 4

\* C2 - Selector law: when filter_duplicates returns under the 'resolution'
\* policy, the member it has removed from its list has a resolution greater
\* than or equal to every member's and strictly greater than that of every
\* earlier member, and the list it returns is the group without that member,
\* in the original order.
C2_SelectorLaw ==
  [][ (pc = "max_loop" /\ pc' = "filter_loop") =>
        LET group == heap[f_list]
            discarded == heap'[trash'[Len(trash')]]
        IN /\ Len(group) >= 2
           /\ Len(f_keys) = Len(group)
           /\ group = GroupOf(paths_key)
           /\ \E r \in 1..Len(group) :
                /\ \A j \in 1..Len(group) : f_keys[r] >= f_keys[j]
                /\ \A j \in 1..(r - 1) : f_keys[j] < f_keys[r]
                /\ discarded = Without(group, r) ]_vars

\* max() has seen a group of three whose last two members tie for the
\* greatest resolution
C2_Witness ==
  /\ pc = "max_loop"
  /\ f_j > Len(heap[f_list])
  /\ f_keys = <<1, 2, 2>>

\* C3 - DeletionSet invariant: when every group has been filtered and the
\* DeletionSet is handed to the confirmation step, each duplicate group has
\* exactly one member that is not in the DeletionSet, and the DeletionSet
\* holds no path twice.
C3_DeletionSetInvariant ==
  (FilteringComplete /\ pc \in {"filter_loop", "confirm"}) =>
    LET marked == SetOf(DeletionSet)
    IN /\ \A k \in DOMAIN duplicates :
            Cardinality({ j \in 1..Len(GroupOf(k)) :
                            GroupOf(k)[j] \notin marked }) = 1
       /\ NoRepeats(DeletionSet)
       /\ Len(trash) = Cardinality(DOMAIN duplicates)

\* two groups have been filtered
C3_Witness ==
  /\ FilteringComplete
  /\ pc = "confirm"
  /\ Len(trash) = 2

BadConfiguration ==
  HashFunctionOf(args.method) = "raise" \/ args.filter_mode # "resolution"

\* C4 - Configuration errors fail fast: in a run started with an unknown
\* hashing method or an unknown filter policy no image is ever opened.
C4_ConfigErrorsFailFast == BadConfiguration => nopens = 0

\* C5 - A decode failure is fatal with no partial results: once opening or
\* hashing an image has failed the run has ended with that error, the call
\* that failed has returned nothing to main (hash_images no dictionaries,
\* filter_duplicates no list for its group), nothing was printed as marked
\* for deletion, the prompt was not shown and no file was removed.
C5_DecodeFailureFatal ==
  error.type = "IOError" =>
    /\ pc = "error"
    /\ returned => (paths_key \in todo /\ Len(trash) < Cardinality(DOMAIN duplicates))
    /\ printed = <<>>
    /\ ~prompted
    /\ removed = {}

\* the second call of filter_duplicates fails to open an image
C5_Witness ==
  /\ error.type = "IOError"
  /\ returned
  /\ Len(trash) = 1

\* C6 - Destructive I/O happens only in the confirm-then-delete step: a file
\* is removed (or about to be) only after hash_images and every
\* filter_duplicates call have returned, the DeletionSet was printed and the
\* user's reply says yes; every removed file is in the DeletionSet.
C6_DeleteOnlyAfterConfirm ==
  (removed # {} \/ pc = "delete") =>
    /\ FilteringComplete
    /\ Len(trash) = Cardinality(DOMAIN duplicates)
    /\ prompted
    /\ SaysYes(reply)
    /\ LET marked == DeletionSet
       IN printed = marked /\ removed \subseteq SetOf(marked)

\* files were removed after the reply " Y"
C6_Witness ==
  /\ Cardinality(removed) >= 2
  /\ reply = <<" ", "Y">>

\* C7 - Empty input is not an error: a run that found no image, or whose
\* images all have distinct fingerprints, ends normally with no duplicate
\* group, an empty DeletionSet, no prompt and no file removed.
C7_EmptyInputNotAnError ==
  LET NoCandidates == pc # "start" /\ image_paths = <<>>
      AllDistinct  == returned /\ \A a, b \in 1..Len(fingerprints) :
                                    a # b => fingerprints[a] # fingerprints[b]
  IN (NoCandidates \/ AllDistinct) =>
       /\ pc = "done"
       /\ error.type = "none"
       /\ DOMAIN duplicates = {}
       /\ DeletionSet = <<>>
       /\ printed = <<>>
       /\ ~prompted
       /\ removed = {}

\* two images with different fingerprints have been hashed
C7_Witness ==
  /\ returned
  /\ Len(image_paths) = 2
  /\ fingerprints[1] # fingerprints[2]

\* C8 - Encounter order is preserved: after every iteration of the hashing
\* loop and when hash_images has returned, the paths of every image_hashes
\* entry and of every duplicate group are in the relative order of the input
\* list.
C8_EncounterOrder ==
  (pc = "hash_loop" \/ JustReturned) =>
    /\ \A h \in DOMAIN image_hashes : InEncounterOrder(IndexOf(h))
    /\ \A k \in DOMAIN duplicates : InEncounterOrder(GroupOf(k))

\* a group of three members listed against the order of their names
C8_Witness ==
  /\ JustReturned
  /\ \E k \in DOMAIN duplicates :
       /\ Len(GroupOf(k)) >= 3
       /\ GroupOf(k)[1] > GroupOf(k)[2]
       /\ GroupOf(k)[2] < GroupOf(k)[3]

\* C9 - At most one image is open at any moment, and none is open outside
\* the with blocks: not between two images and not after a failure.
C9_OneImageOpen ==
  /\ Cardinality(opened) <= 1
  /\ pc \notin {"hash_with", "res_with"} => opened = {}

\* the hash of the second image failed and the image was closed
C9_Witness ==
  /\ error.type = "IOError"
  /\ error.msg = "image file is truncated"
  /\ nopens = 2
  /\ opened = {}

\* C10 - Loop invariant of hash_images: after every iteration, duplicates has
\* an entry for a seen fingerprint exactly when image_hashes holds at least
\* 2 paths for it, that entry is an equal list but another list object, and
\* no later step (filter_duplicates removing a path) changes a list of
\* image_hashes.
C10_LoopInvariant ==
  /\ [](pc = "hash_loop" =>
          /\ \A h \in DOMAIN image_hashes :
               /\ StrOf(h) \in DOMAIN duplicates <=> Len(IndexOf(h)) >= 2
               /\ StrOf(h) \in DOMAIN duplicates =>
                    /\ GroupOf(StrOf(h)) = IndexOf(h)
                    /\ duplicates[StrOf(h)] # image_hashes[h]
          /\ DOMAIN duplicates \subseteq { StrOf(h) : h \in DOMAIN image_hashes })
  /\ [][ returned =>
           \A h \in DOMAIN image_hashes :
             heap'[image_hashes[h]] = heap[image_hashes[h]] ]_vars

\* the loop is at its head with a group of two and a fingerprint seen once
C10_Witness ==
  /\ pc = "hash_loop"
  /\ Cardinality(DOMAIN image_hashes) = 2
  /\ Cardinality(DOMAIN duplicates) = 1

====
